---- MODULE Spec2Model ----
(***************************************************************************)
(* A model of basic_adk_a2ui_example/remote_agent/agent_executor.py:       *)
(*   - process_llm_output_to_a2ui_parts, the recovery of A2UI messages     *)
(*     from the text an LLM produced;                                      *)
(*   - A2UIAgentExecutor.execute and A2UIAgentExecutor.cancel.             *)
(*                                                                         *)
(* Text is a sequence of lexical chunks.  Each chunk is a string of the    *)
(* real text: the six structural characters of JSON, a blank, the digit 1, *)
(* the two complete string literals "a" and "messages", and the letter x   *)
(* (a character that starts no JSON value), and one chunk of              *)
(* MaxStrDigits + 1 digits 1.  A run of digit chunks is one number, as in  *)
(* the real text.                                                          *)
(*                                                                         *)
(* The JSON scanner is modelled by its grammar and by the limit of the     *)
(* interpreter on the digits of an integer literal: a longer literal makes *)
(* int() raise ValueError, which is no JSONDecodeError.  The recursion     *)
(* limit on nesting (RecursionError, no JSONDecodeError either) is beyond  *)
(* the texts the model draws.                                              *)
(***************************************************************************)
EXTENDS Integers, Sequences, FiniteSets, TLC

LBRACK == "["
RBRACK == "]"
LBRACE == "{"
RBRACE == "}"
COLON  == ":"
COMMA  == ","
BLANK  == " "
DIGIT  == "1"
STR_A  == "\"a\""
STR_MESSAGES == "\"messages\""
LETTER == "x"
NEWLINE == "\n"

\* sys.get_int_max_str_digits(): the most digits int() converts.
MaxStrDigits == 4300
\* The chunk "11...1" of MaxStrDigits + 1 digits.
LONGINT == "1*4301"

Alphabet == {LBRACK, RBRACK, LBRACE, RBRACE, COLON, COMMA, BLANK, DIGIT,
             STR_A, STR_MESSAGES, LETTER, LONGINT}

\* The chunks made of digits, and how many digits a chunk holds.
DigitChunks == {DIGIT, LONGINT}
ChunkDigits(c) == IF c = LONGINT THEN MaxStrDigits + 1 ELSE 1

StringLiterals == {STR_A, STR_MESSAGES}

\* The chunks that are whitespace to str.strip() and to the JSON scanner.
Whitespace == {BLANK, NEWLINE}

\* The Python value of a string literal chunk.
StringValue(c) == IF c = STR_MESSAGES THEN "messages" ELSE "a"

(***************************************************************************)
(* Python values.  Every value is a record with the same three fields, so  *)
(* that any two values can be compared.                                    *)
(*   None        [t |-> "none", s |-> "",  n |-> 0, items |-> <<>>]        *)
(*   int         [t |-> "int",  n |-> the number]                          *)
(*   str         [t |-> "str",  s |-> the string]                          *)
(*   list        [t |-> "list", items |-> the elements]                    *)
(*   dict        [t |-> "dict", items |-> the (key, value) pairs in        *)
(*                insertion order, keys distinct]                          *)
(***************************************************************************)
PyNone == [t |-> "none", s |-> "", n |-> 0, items |-> <<>>]
PyInt(k) == [t |-> "int", s |-> "", n |-> k, items |-> <<>>]
PyStr(x) == [t |-> "str", s |-> x, n |-> 0, items |-> <<>>]
PyBool(b) == [t |-> "bool", s |-> "", n |-> IF b THEN 1 ELSE 0, items |-> <<>>]
PyList(xs) == [t |-> "list", s |-> "", n |-> 0, items |-> xs]
PyDict(ps) == [t |-> "dict", s |-> "", n |-> 0, items |-> ps]
Pair(k, v) == [t |-> "pair", s |-> k, n |-> 0, items |-> <<v>>]
PairKey(p) == p.s
PairValue(p) == p.items[1]

\* dict.__setitem__: a key already present keeps its place and takes the
\* new value; a new key goes last.
DictSet(ps, k, v) ==
  IF \E i \in 1..Len(ps) : PairKey(ps[i]) = k
  THEN [i \in 1..Len(ps) |-> IF PairKey(ps[i]) = k THEN Pair(k, v) ELSE ps[i]]
  ELSE Append(ps, Pair(k, v))

\* "key in d" and d[key] of a dict value.
DictHas(d, k) == \E i \in 1..Len(d.items) : PairKey(d.items[i]) = k
DictGet(d, k) ==
  PairValue(d.items[CHOOSE i \in 1..Len(d.items) : PairKey(d.items[i]) = k])
\* d.get(key, default)
DictGetOr(d, k, default) == IF DictHas(d, k) THEN DictGet(d, k) ELSE default

(***************************************************************************)
(* json.JSONDecoder: the scanner of the standard library, on chunks.       *)
(* Positions are 1-based; "end" is the position of the first chunk not     *)
(* consumed; "err" is the class of the exception raised, "none" for a      *)
(* value.                                                                  *)
(***************************************************************************)
\* raise JSONDecodeError(...)
ScanFail == [ok |-> FALSE, val |-> PyNone, end |-> 0, err |-> "JSONDecodeError"]
ScanOk(v, e) == [ok |-> TRUE, val |-> v, end |-> e, err |-> "none"]
\* An exception of another class that leaves the scanner.
ScanRaise(cls) == [ok |-> FALSE, val |-> PyNone, end |-> 0, err |-> cls]

RECURSIVE SkipWs(_, _)
SkipWs(s, i) == IF i <= Len(s) /\ s[i] \in Whitespace THEN SkipWs(s, i + 1) ELSE i

\* int("11...1") with k digits.
RECURSIVE Repunit(_)
Repunit(k) == IF k = 0 THEN 0 ELSE 10 * Repunit(k - 1) + 1

\* The end of the run of digits that starts at i.
RECURSIVE DigitsEnd(_, _)
DigitsEnd(s, i) ==
  IF i <= Len(s) /\ s[i] \in DigitChunks THEN DigitsEnd(s, i + 1) ELSE i

\* The number of digits of the chunks i .. e - 1.
RECURSIVE DigitsCount(_, _, _)
DigitsCount(s, i, e) ==
  IF i >= e THEN 0 ELSE ChunkDigits(s[i]) + DigitsCount(s, i + 1, e)

\* parse_int, that is int(), of the literal in the chunks i .. e - 1.
ParseInt(s, i, e) ==
  IF DigitsCount(s, i, e) > MaxStrDigits
  THEN ScanRaise("ValueError")
  ELSE ScanOk(PyInt(Repunit(DigitsCount(s, i, e))), e)

RECURSIVE ScanOnce(_, _)
RECURSIVE ArrayLoop(_, _, _)
RECURSIVE ObjectLoop(_, _, _)

\* JSONArray, entered after the "[".
JSONArray(s, i) ==
  LET j == SkipWs(s, i)
  IN IF j <= Len(s) /\ s[j] = RBRACK
     THEN ScanOk(PyList(<<>>), j + 1)
     ELSE ArrayLoop(s, j, <<>>)

ArrayLoop(s, j, acc) ==
  LET r == ScanOnce(s, j)
  IN IF ~r.ok THEN r
     ELSE LET k == SkipWs(s, r.end)
              vals == Append(acc, r.val)
          IN IF k > Len(s) THEN ScanFail
             ELSE IF s[k] = RBRACK THEN ScanOk(PyList(vals), k + 1)
             ELSE IF s[k] # COMMA THEN ScanFail
             ELSE ArrayLoop(s, SkipWs(s, k + 1), vals)

\* JSONObject, entered after the "{".
JSONObject(s, i) ==
  LET j == SkipWs(s, i)
  IN IF j <= Len(s) /\ s[j] = RBRACE
     THEN ScanOk(PyDict(<<>>), j + 1)
     ELSE ObjectLoop(s, j, <<>>)

ObjectLoop(s, j, pairs) ==
  IF j > Len(s) \/ s[j] \notin StringLiterals THEN ScanFail
  ELSE LET k == SkipWs(s, j + 1)
       IN IF k > Len(s) \/ s[k] # COLON THEN ScanFail
          ELSE LET r == ScanOnce(s, SkipWs(s, k + 1))
               IN IF ~r.ok THEN r
                  ELSE LET m == SkipWs(s, r.end)
                           ps == DictSet(pairs, StringValue(s[j]), r.val)
                       IN IF m > Len(s) THEN ScanFail
                          ELSE IF s[m] = RBRACE THEN ScanOk(PyDict(ps), m + 1)
                          ELSE IF s[m] # COMMA THEN ScanFail
                          ELSE ObjectLoop(s, SkipWs(s, m + 1), ps)

\* scan_once: one JSON value starting exactly at i.
ScanOnce(s, i) ==
  IF i > Len(s) THEN ScanFail
  ELSE IF s[i] \in StringLiterals THEN ScanOk(PyStr(StringValue(s[i])), i + 1)
  ELSE IF s[i] = LBRACE THEN JSONObject(s, i + 1)
  ELSE IF s[i] = LBRACK THEN JSONArray(s, i + 1)
  ELSE IF s[i] \in DigitChunks THEN ParseInt(s, i, DigitsEnd(s, i))
  ELSE ScanFail

\* Faulty variant: a decode that rejects text after the value.
RawDecode_Strict(s) ==
  LET r == ScanOnce(s, 1)
  IN IF r.ok /\ SkipWs(s, r.end) # Len(s) + 1 THEN ScanFail ELSE r

\* decoder.raw_decode(s): the value that starts at the first chunk, whatever
\* follows it; JSONDecodeError when there is none; ValueError from int().
RawDecode(s) == ScanOnce(s, 1)

\* json.loads(s): leading blanks skipped, one value, then only blanks
\* (JSONDecodeError for anything else after the value).
JsonLoads(s) ==
  LET r == ScanOnce(s, SkipWs(s, 1))
  IN IF r.ok /\ SkipWs(s, r.end) # Len(s) + 1 THEN ScanFail ELSE r

(***************************************************************************)
(* The JSON text of a value, without blanks (used to build the documents   *)
(* the recovery is tried on).                                              *)
(***************************************************************************)
RECURSIVE NumDigits(_)
NumDigits(k) == IF k = 0 THEN 0 ELSE 1 + NumDigits(k \div 10)

StringLiteral(x) == IF x = "messages" THEN STR_MESSAGES ELSE STR_A

RECURSIVE Serialize(_)
RECURSIVE SerializeItems(_, _)
Serialize(v) ==
  IF v.t = "int" THEN [i \in 1..NumDigits(v.n) |-> DIGIT]
  ELSE IF v.t = "str" THEN <<StringLiteral(v.s)>>
  ELSE IF v.t = "list" THEN <<LBRACK>> \o SerializeItems(v.items, 1) \o <<RBRACK>>
  ELSE IF v.t = "dict" THEN <<LBRACE>> \o SerializeItems(v.items, 1) \o <<RBRACE>>
  ELSE <<StringLiteral(PairKey(v)), COLON>> \o Serialize(PairValue(v))

SerializeItems(xs, i) ==
  IF i > Len(xs) THEN <<>>
  ELSE Serialize(xs[i]) \o (IF i < Len(xs) THEN <<COMMA>> ELSE <<>>)
       \o SerializeItems(xs, i + 1)

(***************************************************************************)
(* Message parts.  create_a2ui_part wraps one message record in a data     *)
(* part of the A2UI MIME type; a text part carries text.                   *)
(***************************************************************************)
TextPart(text) == [kind |-> "text", text |-> text, data |-> PyNone]
create_a2ui_part(message) == [kind |-> "a2ui", text |-> <<>>, data |-> message]

\* str.strip(): leading and trailing blanks removed.
RECURSIVE LStrip(_)
LStrip(s) == IF s # <<>> /\ Head(s) \in Whitespace THEN LStrip(Tail(s)) ELSE s
RECURSIVE RStrip(_)
RStrip(s) ==
  IF s # <<>> /\ s[Len(s)] \in Whitespace THEN RStrip(SubSeq(s, 1, Len(s) - 1)) ELSE s
Strip(s) == RStrip(LStrip(s))

\* Faulty variant: the pattern r'\{', which misses an array.
JsonStart_BraceOnly(s) ==
  IF \E i \in 1..Len(s) : s[i] = LBRACE
  THEN CHOOSE i \in 1..Len(s) :
         s[i] = LBRACE /\ \A j \in 1..(i - 1) : s[j] # LBRACE
  ELSE 0

\* re.search(r'[\{\[]', s): the position of the first "{" or "[", 0 for no
\* match.
JsonStart(s) ==
  IF \E i \in 1..Len(s) : s[i] \in {LBRACE, LBRACK}
  THEN CHOOSE i \in 1..Len(s) :
         /\ s[i] \in {LBRACE, LBRACK}
         /\ \A j \in 1..(i - 1) : s[j] \notin {LBRACE, LBRACK}
  ELSE 0

\* max(s.rfind('}'), s.rfind(']')): the position of the last "}" or "]",
\* 0 where Python gives -1.
EndMatch(s) ==
  IF \E i \in 1..Len(s) : s[i] \in {RBRACE, RBRACK}
  THEN CHOOSE i \in 1..Len(s) :
         /\ s[i] \in {RBRACE, RBRACK}
         /\ \A j \in (i + 1)..Len(s) : s[j] \notin {RBRACE, RBRACK}
  ELSE 0

\* How a piece of the function ends: with data bound to a value (None when
\* nothing was parsed), or with an exception that no except clause catches.
Data(v) == [raised |-> "none", data |-> v]
Raises(cls) == [raised |-> cls, data |-> PyNone]

\* The except branch: json.loads of json_str up to the last closing bracket,
\* inside try / except json.JSONDecodeError.
FallbackParse(json_str) ==
  LET end_match == EndMatch(json_str)
  IN IF end_match # 0
     THEN LET r == JsonLoads(SubSeq(json_str, 1, end_match))
          IN IF r.ok THEN Data(r.val)
             ELSE IF r.err = "JSONDecodeError" THEN Data(PyNone)
             ELSE Raises(r.err)
     ELSE Data(PyNone)

\* The try statement: data after raw_decode and, when it raised
\* JSONDecodeError, after the fallback; any other exception leaves the
\* function.
ExtractData(json_str) ==
  LET r == RawDecode(json_str)
  IN IF r.ok THEN Data(r.val)
     ELSE IF r.err = "JSONDecodeError" THEN FallbackParse(json_str)
     ELSE Raises(r.err)

\* Faulty variant: data["messages"] taken without the isinstance check.
A2uiMessages_Unchecked(data) ==
  IF data.t = "list" THEN data.items
  ELSE IF DictHas(data, "messages") THEN DictGet(data, "messages").items
       ELSE <<data>>

\* a2ui_messages for a list or a dict.
A2uiMessages(data) ==
  IF data.t = "list" THEN data.items
  ELSE IF DictHas(data, "messages") /\ DictGet(data, "messages").t = "list"
       THEN DictGet(data, "messages").items
       ELSE <<data>>

\* str(data) of a value that is neither a list nor a dict.
StrOf(data) ==
  IF data.t = "int" THEN [i \in 1..NumDigits(data.n) |-> DIGIT] ELSE <<data.s>>

\* return [Part(root=TextPart(text=llm_output))], llm_output being stripped.
TextFallback(stripped) == <<TextPart(stripped)>>

\* From "if data is None" to the end of the function.
PartsFromData(stripped, data) ==
  IF data = PyNone THEN TextFallback(stripped)
  ELSE IF data.t \in {"list", "dict"}
       THEN LET a2ui_messages == A2uiMessages(data)
            IN [i \in 1..Len(a2ui_messages) |-> create_a2ui_part(a2ui_messages[i])]
       ELSE <<TextPart(StrOf(data))>>

\* json_str = llm_output[match.start():]
JsonStr(stripped) == SubSeq(stripped, JsonStart(stripped), Len(stripped))

\* What a call of the function gives its caller: the parts it returns, or
\* the exception it raises.
Returns(parts) == [raised |-> "none", parts |-> parts]
RaisesToCaller(cls) == [raised |-> cls, parts |-> <<>>]

process_llm_output_to_a2ui_parts(llm_output) ==
  IF llm_output = <<>> THEN Returns(<<>>)
  ELSE LET stripped == Strip(llm_output)
       IN IF JsonStart(stripped) = 0 THEN Returns(TextFallback(stripped))
          ELSE LET got == ExtractData(JsonStr(stripped))
               IN IF got.raised # "none" THEN RaisesToCaller(got.raised)
                  ELSE Returns(PartsFromData(stripped, got.data))

(***************************************************************************)
(* A2UIAgentExecutor.execute: the user action of the inbound message.      *)
(* A message part is [root, data]: root is "TextPart" or "DataPart" and    *)
(* data the dict a data part carries.                                      *)
(***************************************************************************)
MessageTextPart == [root |-> "TextPart", data |-> PyDict(<<>>)]
MessageDataPart(data) == [root |-> "DataPart", data |-> data]

\* isinstance(part.root, DataPart) and "userAction" in part.root.data
IsUserActionPart(part) == part.root = "DataPart" /\ DictHas(part.data, "userAction")

\* Faulty variant: the loop without its break, so that the last match wins.
UserActionIndex_Last(parts) ==
  IF \E i \in 1..Len(parts) : IsUserActionPart(parts[i])
  THEN CHOOSE i \in 1..Len(parts) :
         /\ IsUserActionPart(parts[i])
         /\ \A j \in (i + 1)..Len(parts) : ~IsUserActionPart(parts[j])
  ELSE 0

\* The part the for loop stops at (it breaks at the first match); 0 when
\* the loop runs to its end.
UserActionIndex(parts) ==
  IF \E i \in 1..Len(parts) : IsUserActionPart(parts[i])
  THEN CHOOSE i \in 1..Len(parts) :
         /\ IsUserActionPart(parts[i])
         /\ \A j \in 1..(i - 1) : ~IsUserActionPart(parts[j])
  ELSE 0

\* One pass of the inner loop: context_dict after the item.  Every item the
\* model draws has a "key".
ContextDictStep(context_dict, item) ==
  LET key == DictGet(item, "key").s
      val == DictGetOr(item, "value", PyDict(<<>>))
  IN IF DictHas(val, "literalString")
       THEN DictSet(context_dict, key, DictGet(val, "literalString"))
     ELSE IF DictHas(val, "literalNumber")
       THEN DictSet(context_dict, key, DictGet(val, "literalNumber"))
     ELSE IF DictHas(val, "literalBoolean")
       THEN DictSet(context_dict, key, DictGet(val, "literalBoolean"))
     ELSE IF DictHas(val, "path")
       THEN DictSet(context_dict, key,
                    PyStr("{path: " \o DictGet(val, "path").s \o "}"))
     ELSE context_dict

RECURSIVE ContextDict(_, _, _)
ContextDict(action_context, i, context_dict) ==
  IF i > Len(action_context) THEN context_dict
  ELSE ContextDict(action_context, i + 1,
                   ContextDictStep(context_dict, action_context[i]))

\* json.dumps of a str, an int or a bool.
DumpsValue(v) ==
  IF v.t = "str" THEN "\"" \o v.s \o "\""
  ELSE IF v.t = "int" THEN ToString(v.n)
  ELSE IF v.n = 1 THEN "true" ELSE "false"

\* json.dumps(context_dict), with its ", " and ": " separators.
RECURSIVE DumpsItems(_, _)
DumpsItems(ps, i) ==
  IF i > Len(ps) THEN ""
  ELSE "\"" \o PairKey(ps[i]) \o "\": " \o DumpsValue(PairValue(ps[i]))
       \o (IF i < Len(ps) THEN ", " ELSE "") \o DumpsItems(ps, i + 1)
Dumps(ps) == "{" \o DumpsItems(ps, 1) \o "}"

\* An f-string's rendering of action_name.
FormatName(v) == IF v.t = "none" THEN "None" ELSE v.s

\* user_action_data after the loop over the message parts: None, or the
\* directive built from the part the loop stopped at.
UserActionData(parts) ==
  LET i == UserActionIndex(parts)
  IN IF i = 0 THEN PyNone
     ELSE LET action_payload == DictGet(parts[i].data, "userAction")
              action_name == DictGetOr(action_payload, "name", PyNone)
              action_context == DictGetOr(action_payload, "context", PyList(<<>>))
              context_dict == ContextDict(action_context.items, 1, <<>>)
          IN PyStr("User initiated action: '" \o FormatName(action_name)
                   \o "'. Action context data: " \o Dumps(context_dict)
                   \o ". Please use the appropriate tool to handle this.")

\* Faulty variant: the second "not" dropped.
EmptyInteraction_DroppedNot(user_input_text, user_action_data) ==
  user_input_text = <<>> /\ user_action_data # PyNone

\* if not user_input_text and not user_action_data: return
EmptyInteraction(user_input_text, user_action_data) ==
  user_input_text = <<>> /\ user_action_data = PyNone

\* msg_text, the text of new_message.  The user's text is a sequence of
\* chunks; the directive is one chunk.
MsgText(user_input_text, user_action_data) ==
  IF user_action_data # PyNone
  THEN Strip(user_input_text \o <<NEWLINE>> \o <<user_action_data.s>>)
  ELSE user_input_text

(***************************************************************************)
(* Bounds of the model.                                                    *)
(***************************************************************************)
\* The longest LLM output tried chunk by chunk.
MaxLen == 4
\* The most elements of a generated JSON array.
MaxElems == 2
\* The most events the runner streams in one interaction.
MaxEvents == 3
\* The number of interactions served.
MaxInteractions == 2
\* The most entries of a user action's context.
MaxContext == 2

(***************************************************************************)
(* State.                                                                  *)
(***************************************************************************)
VARIABLES
  pc,               \* where the handler is: "idle", "received" (execute is
                    \* about to run), "enqueue_task" (suspended in the
                    \* await of line 125), "update_working" (in the await
                    \* of line 128), "call_runner" (resumed, before line
                    \* 130), "streaming" (inside async for),
                    \* "update_failed" (in the await of line 156),
                    \* "update_completed" (in the await of line 166),
                    \* "returned"
  context,          \* the RequestContext: user_input, parts, current_task,
                    \* activated
  event_queue,      \* the events enqueued for this request, in order
  msg_text,         \* the text of new_message handed to the runner
  accumulated_text, \* execute's accumulated_text
  final_a2a_parts,  \* execute's final_a2a_parts
  runner,           \* the LLM runner: its status, the events it delivered
                    \* and the error it raised
  runner_calls,     \* how many times run_async was called
  recover_calls,    \* how many times this request called
                    \* process_llm_output_to_a2ui_parts
  raised,           \* the exception the last execute let escape, or "none"
  cancel_raised,    \* the exception the last cancel raised, or "none"
  served,           \* interactions received so far
  llm_output,       \* the argument of process_llm_output_to_a2ui_parts
  final_parts,      \* the parts it returned
  process_raised,   \* the exception it raised, or "none"
  called,           \* whether it has returned
  gen               \* how llm_output was put together: prose, document,
                    \* trailing text

vars == <<pc, context, event_queue, msg_text, accumulated_text,
          final_a2a_parts, runner, runner_calls, recover_calls, raised, cancel_raised, served,
          llm_output, final_parts, process_raised, called, gen>>

execVars == <<pc, context, event_queue, msg_text, accumulated_text,
              final_a2a_parts, runner, runner_calls, recover_calls, raised, cancel_raised, served>>
recoverVars == <<llm_output, final_parts, process_raised, called, gen>>

(***************************************************************************)
(* Events of the A2A event queue.                                          *)
(***************************************************************************)
\* new_task(context.message), enqueued as it is.
TaskEvent == [type |-> "task", state |-> "submitted", parts |-> <<>>, final |-> FALSE]
\* What TaskUpdater.update_status enqueues.
StatusEvent(state, parts, final) ==
  [type |-> "status", state |-> state, parts |-> parts, final |-> final]

\* try_activate_a2ui_extension(context)
try_activate_a2ui_extension(ctx) == [ctx EXCEPT !.activated = TRUE]

\* The names bound in the module by its import statements and definitions.
ModuleNames ==
  {"json", "logging", "re", "a2a_types", "AgentExecutor", "RequestContext",
   "EventQueue", "TaskUpdater", "UnsupportedOperationError", "Task",
   "new_agent_parts_message", "new_task", "Runner", "Aclosing", "types",
   "create_a2ui_part", "try_activate_a2ui_extension", "logger",
   "process_llm_output_to_a2ui_parts", "A2UIAgentExecutor"}

\* raise ServerError(error=UnsupportedOperationError()): the name ServerError
\* is looked up first.
CancelRaises ==
  IF "ServerError" \in ModuleNames
  THEN "ServerError(UnsupportedOperationError)"
  ELSE "NameError"

\* The errors the runner raises here, both subclasses of Exception.
RunnerErrors ==
  {[cls |-> "ValueError", msg |-> "bad request"],
   [cls |-> "RuntimeError", msg |-> "quota exceeded"]}

\* Faulty variant: except ValueError.
Catches_ValueErrorOnly(error) == error.cls = "ValueError"

\* except Exception: whether the handler catches the error.
Catches(error) == error.cls \in {"Exception", "ValueError", "RuntimeError"}

\* updater.update_status(TaskState.working)
WorkingEvent == StatusEvent("working", <<>>, FALSE)

\* Faulty variant: the except branch without its return, so that the
\* completed status follows the failed one.
FailedEvents_FallThrough(error) ==
  <<StatusEvent("failed", <<TextPart(<<"Error: " \o error.msg>>)>>, TRUE),
    StatusEvent("completed", <<>>, TRUE)>>

\* The except branch: the failed status with its single text part.
FailedEvents(error) ==
  <<StatusEvent("failed", <<TextPart(<<"Error: " \o error.msg>>)>>, TRUE)>>

\* The end of execute: the completed status with the recovered parts.
CompletedEvents(parts) == <<StatusEvent("completed", parts, TRUE)>>

\* Faulty variant: the text of a part put before the accumulated text.
RECURSIVE Accumulate_Prepend(_, _, _)
Accumulate_Prepend(text, event, i) ==
  IF i > Len(event) THEN text
  ELSE Accumulate_Prepend(IF event[i] # <<>> THEN event[i] \o text ELSE text,
                          event, i + 1)

\* The body of the async for: the text of every part of the event, in
\* order, appended to accumulated_text.  A part with no text is <<>>.
RECURSIVE Accumulate(_, _, _)
Accumulate(text, event, i) ==
  IF i > Len(event) THEN text
  ELSE Accumulate(IF event[i] # <<>> THEN text \o event[i] ELSE text, event, i + 1)

(***************************************************************************)
(* The inputs the model draws.                                             *)
(***************************************************************************)
\* context.get_user_input() or ""
UserInputs == {<<>>, <<LETTER>>, <<BLANK, LETTER>>, <<LETTER, BLANK>>, <<BLANK>>}

TaggedValues ==
  {PyDict(<<Pair("literalString", PyStr("red"))>>),
   PyDict(<<Pair("literalNumber", PyInt(1))>>),
   PyDict(<<Pair("literalBoolean", PyBool(TRUE))>>),
   PyDict(<<Pair("path", PyStr("/p"))>>),
   PyDict(<<Pair("path", PyStr("/p")), Pair("literalString", PyStr("red"))>>),
   PyDict(<<>>)}

ContextKeys == {"color", "size"}

ContextItems ==
  {PyDict(<<Pair("key", PyStr(k)), Pair("value", v)>>) :
     k \in ContextKeys, v \in TaggedValues}
  \cup {PyDict(<<Pair("key", PyStr(k))>>) : k \in ContextKeys}

ActionContexts(n) == UNION {[1..k -> ContextItems] : k \in 0..n}

UserActionPart(payload) == MessageDataPart(PyDict(<<Pair("userAction", payload)>>))

UserActionParts(n) ==
  {UserActionPart(PyDict(<<Pair("name", PyStr("select")),
                           Pair("context", PyList(c))>>)) :
     c \in ActionContexts(n)}
  \cup {UserActionPart(PyDict(<<>>))}

\* The action of the testable property: select, with color = red.
SelectRed ==
  UserActionPart(PyDict(<<
    Pair("name", PyStr("select")),
    Pair("context", PyList(<<PyDict(<<Pair("key", PyStr("color")),
        Pair("value", PyDict(<<Pair("literalString", PyStr("red"))>>))>>)>>))>>))

OpenSize ==
  UserActionPart(PyDict(<<
    Pair("name", PyStr("open")),
    Pair("context", PyList(<<PyDict(<<Pair("key", PyStr("size")),
        Pair("value", PyDict(<<Pair("literalNumber", PyInt(1))>>))>>)>>))>>))

OtherParts == {MessageTextPart, MessageDataPart(PyDict(<<Pair("other", PyInt(1))>>))}

\* What may come before the first user action part, and after it.
PartPrefixes == {<<>>} \cup {<<p>> : p \in OtherParts}
PartTails == {<<>>} \cup {<<p>> : p \in OtherParts \cup {OpenSize}}

PartLists(n) ==
  {pre \o <<ua>> \o tail :
     pre \in PartPrefixes, ua \in UserActionParts(n), tail \in PartTails}
  \cup PartPrefixes

SmallPartLists ==
  {<<>>, <<MessageTextPart>>, <<SelectRed>>, <<MessageTextPart, SelectRed>>}

NewContext(user_input, parts, current_task) ==
  [user_input |-> user_input, parts |-> parts, current_task |-> current_task,
   activated |-> FALSE]

\* The events the runner delivers: each is the list of the texts of its
\* content parts (<<>>: no content; a text of <<>>: a part without text).
StreamEvents ==
  {<<>>, << <<>> >>, << <<LBRACK>> >>, << <<DIGIT>>, <<RBRACK>> >>, << <<LETTER>> >>}

\* JSON documents, and the text they are wrapped in.
Elems == {PyInt(1), PyDict(<<>>), PyDict(<<Pair("a", PyInt(1))>>), PyList(<<>>)}
Arrays(n) == {PyList(xs) : xs \in UNION {[1..k -> Elems] : k \in 0..n}}
Objects(n) ==
  {PyDict(<<Pair("messages", a)>>) : a \in Arrays(n)}
  \cup {PyDict(<<Pair("a", PyStr("a")), Pair("messages", a)>>) : a \in Arrays(n)}
  \cup {PyDict(<<Pair("messages", PyInt(1))>>),
        PyDict(<<Pair("messages", PyDict(<<Pair("a", PyInt(1))>>))>>),
        PyDict(<<Pair("a", PyStr("a"))>>),
        PyDict(<<Pair("a", PyList(<<PyInt(1)>>))>>),
        PyDict(<<>>)}
Documents(n) == Arrays(n) \cup Objects(n)

ProseSet ==
  {<<>>, <<LETTER>>, <<LETTER, BLANK>>, <<BLANK, LETTER, COLON, BLANK>>,
   <<LETTER, LBRACK>>, <<LBRACE, LETTER, RBRACE, BLANK>>, <<LBRACK, RBRACK, BLANK>>}
TrailSet ==
  {<<>>, <<BLANK, LETTER>>, <<RBRACK>>, <<RBRACE, BLANK>>, <<COMMA, LBRACK>>,
   <<DIGIT>>, <<LONGINT>>}

\* The text with a blank after every comma and colon.
RECURSIVE Spaced(_)
Spaced(text) ==
  IF text = <<>> THEN <<>>
  ELSE (IF Head(text) \in {COMMA, COLON} THEN <<Head(text), BLANK>> ELSE <<Head(text)>>)
       \o Spaced(Tail(text))

DocText(g) ==
  IF g.doc = PyNone THEN <<>>
  ELSE IF g.spaced THEN Spaced(Serialize(g.doc)) ELSE Serialize(g.doc)

GenText(g) == g.prose \o DocText(g) \o g.trail

Texts(n) == UNION {[1..k -> Alphabet] : k \in 0..n}

Generators ==
  [prose : Texts(MaxLen), doc : {PyNone}, spaced : {FALSE}, trail : {<<>>}]
  \cup [prose : ProseSet, doc : Documents(MaxElems), spaced : BOOLEAN, trail : TrailSet]

(***************************************************************************)
(* Initial states.                                                         *)
(***************************************************************************)
ExecIdle ==
  /\ pc = "idle"
  /\ context = NewContext(<<>>, <<>>, FALSE)
  /\ event_queue = <<>>
  /\ msg_text = <<>>
  /\ accumulated_text = <<>>
  /\ final_a2a_parts = <<>>
  /\ runner = [status |-> "idle", delivered |-> <<>>, error |-> "none"]
  /\ runner_calls = 0
  /\ recover_calls = 0
  /\ raised = "none"
  /\ cancel_raised = "none"
  /\ served = 0

RecoverIdle ==
  /\ gen = [prose |-> <<>>, doc |-> PyNone, spaced |-> FALSE, trail |-> <<>>]
  /\ llm_output = <<>>
  /\ final_parts = <<>>
  /\ process_raised = "none"
  /\ called = FALSE

Init == ExecIdle /\ RecoverIdle

(***************************************************************************)
(* A2UIAgentExecutor                                                       *)
(***************************************************************************)
\* The server hands a request to execute, with a fresh event queue.
Receive ==
  /\ pc \in {"idle", "returned"}
  /\ served < MaxInteractions
  /\ \E u \in UserInputs, ps \in SmallPartLists, t \in BOOLEAN :
       context' = NewContext(u, ps, t)
  /\ pc' = "received"
  /\ served' = served + 1
  /\ event_queue' = <<>>
  /\ msg_text' = <<>>
  /\ accumulated_text' = <<>>
  /\ final_a2a_parts' = <<>>
  /\ runner' = [status |-> "idle", delivered |-> <<>>, error |-> "none"]
  /\ recover_calls' = 0
  /\ raised' = "none"
  /\ UNCHANGED <<runner_calls, cancel_raised, recoverVars>>

\* execute, from its first line to its first await: the early return of
\* an empty interaction, or the activation of the extension and the choice
\* of the task.  With no current task the handler is suspended in
\* enqueue_event(task), otherwise in update_status(working).
Execute ==
  /\ pc = "received"
  /\ LET user_input_text == context.user_input
         user_action_data == UserActionData(context.parts)
     IN IF EmptyInteraction(user_input_text, user_action_data)
        THEN /\ pc' = "returned"
             /\ UNCHANGED context
        ELSE /\ context' = try_activate_a2ui_extension(context)
             /\ pc' = IF context.current_task THEN "update_working"
                                              ELSE "enqueue_task"
  /\ UNCHANGED <<event_queue, msg_text, accumulated_text, final_a2a_parts,
                 runner, runner_calls, recover_calls, raised, cancel_raised,
                 served, recoverVars>>

\* await event_queue.enqueue_event(task) completes; the handler goes on to
\* the await of update_status(working).
EnqueueTask ==
  /\ pc = "enqueue_task"
  /\ event_queue' = Append(event_queue, TaskEvent)
  /\ pc' = "update_working"
  /\ UNCHANGED <<context, msg_text, accumulated_text, final_a2a_parts, runner,
                 runner_calls, recover_calls, raised, cancel_raised, served,
                 recoverVars>>

\* await updater.update_status(TaskState.working) completes.
UpdateWorking ==
  /\ pc = "update_working"
  /\ event_queue' = Append(event_queue, WorkingEvent)
  /\ pc' = "call_runner"
  /\ UNCHANGED <<context, msg_text, accumulated_text, final_a2a_parts, runner,
                 runner_calls, recover_calls, raised, cancel_raised, served,
                 recoverVars>>

\* The prompt is put together and the runner called; the handler waits for
\* the first event of the stream.
CallRunner ==
  /\ pc = "call_runner"
  /\ LET user_input_text == context.user_input
         user_action_data == UserActionData(context.parts)
     IN msg_text' = MsgText(user_input_text, user_action_data)
  /\ accumulated_text' = <<>>
  /\ runner' = [runner EXCEPT !.status = "running"]
  /\ runner_calls' = runner_calls + 1
  /\ pc' = "streaming"
  /\ UNCHANGED <<context, event_queue, final_a2a_parts, recover_calls, raised,
                 cancel_raised, served, recoverVars>>

\* One pass of the async for.
RunnerYield ==
  /\ pc = "streaming"
  /\ Len(runner.delivered) < MaxEvents
  /\ \E event \in StreamEvents :
       /\ runner' = [runner EXCEPT !.delivered = Append(@, event)]
       /\ accumulated_text' = Accumulate(accumulated_text, event, 1)
  /\ UNCHANGED <<pc, context, event_queue, msg_text, final_a2a_parts,
                 runner_calls, recover_calls, raised, cancel_raised, served,
                 recoverVars>>

\* The runner raises, at the call or between two events.  A caught error
\* takes the handler to the await of update_status(failed); any other
\* leaves execute.
RunnerRaise ==
  /\ pc = "streaming"
  /\ \E error \in RunnerErrors :
       /\ runner' = [runner EXCEPT !.status = "raised", !.error = error.msg]
       /\ IF Catches(error)
          THEN /\ pc' = "update_failed"
               /\ raised' = "none"
          ELSE /\ pc' = "returned"
               /\ raised' = error.cls
  /\ UNCHANGED <<context, event_queue, msg_text, accumulated_text,
                 final_a2a_parts, runner_calls, recover_calls, cancel_raised,
                 served, recoverVars>>

\* await updater.update_status(TaskState.failed, ...) completes and execute
\* returns.
UpdateFailed ==
  /\ pc = "update_failed"
  /\ LET e == CHOOSE error \in RunnerErrors : error.msg = runner.error
     IN event_queue' = event_queue \o FailedEvents(e)
  /\ pc' = "returned"
  /\ UNCHANGED <<context, msg_text, accumulated_text, final_a2a_parts, runner,
                 runner_calls, recover_calls, raised, cancel_raised, served,
                 recoverVars>>

\* The stream ends: the accumulated text is processed, and the handler is
\* suspended in update_status(completed).  Line 164 is outside the try
\* statement: what the function raises leaves execute.
RunnerEnd ==
  /\ pc = "streaming"
  /\ runner' = [runner EXCEPT !.status = "ended"]
  /\ recover_calls' = recover_calls + 1
  /\ LET result == process_llm_output_to_a2ui_parts(accumulated_text)
     IN IF result.raised = "none"
        THEN /\ final_a2a_parts' = result.parts
             /\ pc' = "update_completed"
             /\ UNCHANGED raised
        ELSE /\ raised' = result.raised
             /\ pc' = "returned"
             /\ UNCHANGED final_a2a_parts
  /\ UNCHANGED <<context, event_queue, msg_text, accumulated_text,
                 runner_calls, cancel_raised, served, recoverVars>>

\* await updater.update_status(TaskState.completed, ...) completes and
\* execute returns.
UpdateCompleted ==
  /\ pc = "update_completed"
  /\ event_queue' = event_queue \o CompletedEvents(final_a2a_parts)
  /\ pc' = "returned"
  /\ UNCHANGED <<context, msg_text, accumulated_text, final_a2a_parts, runner,
                 runner_calls, recover_calls, raised, cancel_raised, served,
                 recoverVars>>

\* cancel, whatever execute is doing: between any two steps of execute.
Cancel ==
  /\ cancel_raised' = CancelRaises
  /\ UNCHANGED <<pc, context, event_queue, msg_text, accumulated_text,
                 final_a2a_parts, runner, runner_calls, recover_calls, raised,
                 served, recoverVars>>

Next ==
  \/ Receive
  \/ Execute
  \/ EnqueueTask
  \/ UpdateWorking
  \/ CallRunner
  \/ RunnerYield
  \/ RunnerRaise
  \/ UpdateFailed
  \/ RunnerEnd
  \/ UpdateCompleted
  \/ Cancel

Spec == Init /\ [][Next]_vars

(***************************************************************************)
(* process_llm_output_to_a2ui_parts on its own.                            *)
(***************************************************************************)
InitRecover ==
  /\ ExecIdle
  /\ gen \in Generators
  /\ llm_output = GenText(gen)
  /\ final_parts = <<>>
  /\ process_raised = "none"
  /\ called = FALSE

\* One call of the function: it returns its parts or raises.
Recover ==
  /\ ~called
  /\ LET result == process_llm_output_to_a2ui_parts(llm_output)
     IN /\ final_parts' = result.parts
        /\ process_raised' = result.raised
  /\ called' = TRUE
  /\ UNCHANGED <<llm_output, gen, execVars>>

SpecRecover == InitRecover /\ [][Recover]_vars

(***************************************************************************)
(* execute up to the call of the runner, on the full range of inbound      *)
(* messages.                                                               *)
(***************************************************************************)
InitPrompt ==
  /\ ExecIdle
  /\ RecoverIdle

ReceiveAny ==
  /\ pc = "idle"
  /\ \E u \in UserInputs, ps \in PartLists(MaxContext) :
       context' = NewContext(u, ps, FALSE)
  /\ pc' = "received"
  /\ served' = served + 1
  /\ UNCHANGED <<event_queue, msg_text, accumulated_text, final_a2a_parts,
                 runner, runner_calls, recover_calls, raised, cancel_raised,
                 recoverVars>>

NextPrompt == ReceiveAny \/ Execute \/ EnqueueTask \/ UpdateWorking \/ CallRunner

SpecPrompt == InitPrompt /\ [][NextPrompt]_vars

(***************************************************************************)
(* Properties.                                                             *)
(***************************************************************************)
\* What each event of the queue is: "task", or the state of a status update.
Kinds(q) == [i \in 1..Len(q) |-> IF q[i].type = "task" THEN "task" ELSE q[i].state]

\* The interaction has text or a structured action.
HasWork(ctx) ==
  ctx.user_input # <<>> \/ \E i \in 1..Len(ctx.parts) : IsUserActionPart(ctx.parts[i])

Last(q) == q[Len(q)]

C2_CancelUnsupported ==
  [][cancel_raised' # cancel_raised =>
       /\ cancel_raised' = "ServerError(UnsupportedOperationError)"
       /\ UNCHANGED <<pc, context, event_queue, runner>>]_vars

\* C3: execute on an interaction with empty text and no structured action
\* enqueues nothing, creates no task and never calls the runner, however
\* often it is repeated.
C3_EmptyIsNoOp ==
  [][(pc = "received" /\ ~HasWork(context)) =>
       /\ event_queue = <<>>
       /\ pc' \in {"received", "returned"}
       /\ UNCHANGED <<context, event_queue, msg_text, accumulated_text,
                      final_a2a_parts, runner, runner_calls, recover_calls,
                      raised>>]_vars

C3_Witness ==
  /\ pc = "returned"
  /\ served = MaxInteractions
  /\ ~HasWork(context)
  /\ event_queue = <<>>
  /\ runner_calls = 0
  /\ runner.status = "idle"

\* C4: when the runner raises, the handler goes to the failed status update
\* and from there returns; the task ends "failed" and never "completed",
\* the final message holds exactly one part, whose text is the description
\* of the error, and execute lets no exception escape.
C4_RunnerErrorFails ==
  runner.status = "raised" =>
    /\ pc \in {"update_failed", "returned"}
    /\ raised = "none"
    /\ \A i \in 1..Len(event_queue) : event_queue[i].state # "completed"
    /\ pc = "update_failed" =>
         \A i \in 1..Len(event_queue) : event_queue[i].state # "failed"
    /\ pc = "returned" =>
         /\ Last(event_queue).state = "failed"
         /\ Last(event_queue).final
         /\ Len(Last(event_queue).parts) = 1
         /\ Last(event_queue).parts[1] = TextPart(<<"Error: " \o runner.error>>)

C4_Witness ==
  /\ runner.status = "raised"
  /\ pc = "returned"
  /\ Len(runner.delivered) = 2
  /\ accumulated_text = <<LBRACK, DIGIT, RBRACK>>
  /\ Last(event_queue).state = "failed"

\* The texts of the delivered events, in the order of delivery.
RECURSIVE Concat(_)
Concat(xs) == IF xs = <<>> THEN <<>> ELSE Head(xs) \o Concat(Tail(xs))
DeliveredText == Concat([i \in 1..Len(runner.delivered) |-> Concat(runner.delivered[i])])

\* C9: the text fragments are concatenated in the order of delivery; the
\* recovery runs once, after the stream has ended, on the whole text; no
\* part is emitted while the stream delivers; and the partial text of a
\* stream that failed is neither parsed nor emitted.
C9_AccumulateThenRecover ==
  /\ accumulated_text = DeliveredText
  /\ pc \in {"enqueue_task", "update_working", "call_runner", "streaming"} =>
       /\ recover_calls = 0
       /\ final_a2a_parts = <<>>
       /\ \A i \in 1..Len(event_queue) : event_queue[i].parts = <<>>
  /\ runner.status = "ended" =>
       /\ pc \in {"update_completed", "returned"}
       /\ recover_calls = 1
       /\ final_a2a_parts = process_llm_output_to_a2ui_parts(DeliveredText).parts
       /\ pc = "update_completed" =>
            \A i \in 1..Len(event_queue) : event_queue[i].parts = <<>>
       /\ pc = "returned" =>
            /\ Last(event_queue).state = "completed"
            /\ Last(event_queue).parts = final_a2a_parts
            /\ \A i \in 1..(Len(event_queue) - 1) : event_queue[i].parts = <<>>
  /\ runner.status = "raised" =>
       /\ recover_calls = 0
       /\ final_a2a_parts = <<>>
       /\ \A i \in 1..Len(event_queue) : \A j \in 1..Len(event_queue[i].parts) :
            event_queue[i].parts[j] = TextPart(<<"Error: " \o runner.error>>)

C9_Witness ==
  /\ runner.status = "ended"
  /\ pc = "returned"
  /\ runner.delivered = << <<<<LETTER>>>>, <<<<LBRACK>>>>, <<<<DIGIT>>, <<RBRACK>>>> >>
  /\ accumulated_text = <<LETTER, LBRACK, DIGIT, RBRACK>>
  /\ Last(event_queue).parts = <<create_a2ui_part(PyInt(1))>>

\* One A2UI part per record, in order.
PartsOf(records) == [i \in 1..Len(records) |-> create_a2ui_part(records[i])]

BracketFree(text) == \A i \in 1..Len(text) : text[i] \notin {LBRACE, LBRACK}

NothingParsed(text) ==
  LET stripped == Strip(text)
  IN \/ BracketFree(stripped)
     \/ /\ ~RawDecode(JsonStr(stripped)).ok
        /\ \/ EndMatch(JsonStr(stripped)) = 0
           \/ ~JsonLoads(SubSeq(JsonStr(stripped), 1, EndMatch(JsonStr(stripped)))).ok

\* C6: the function raises nothing to its caller, whatever the text; when
\* the text has no "{" or "[", or both parse attempts fail, it returns one
\* text part whose text is the output verbatim, and no part for an empty
\* output.
C6_NeverRaisesFallbackVerbatim ==
  called =>
    /\ process_raised = "none"
    /\ NothingParsed(llm_output) =>
         final_parts = IF llm_output = <<>> THEN <<>> ELSE <<TextPart(llm_output)>>

\* The function has raised: a JSON array whose element is an integer literal
\* of more digits than int() converts.
C6_Witness ==
  /\ called
  /\ llm_output = <<LBRACK, LONGINT, RBRACK>>
  /\ process_raised = "ValueError"
  /\ final_parts = <<>>

\* The records a recovered value stands for.
RecordsOf(v) ==
  IF v.t = "list" THEN v.items
  ELSE IF \E i \in 1..Len(v.items) :
            PairKey(v.items[i]) = "messages" /\ PairValue(v.items[i]).t = "list"
       THEN PairValue(v.items[CHOOSE i \in 1..Len(v.items) :
                                 PairKey(v.items[i]) = "messages"]).items
       ELSE <<v>>

\* C7: the parts follow the shape of the recovered value: the elements of
\* an array; the elements of the "messages" array of an object that has
\* one; the object itself as the single record otherwise.
C7_ShapeDecides ==
  called =>
    /\ (gen.doc # PyNone /\ BracketFree(gen.prose)) =>
          final_parts = PartsOf(RecordsOf(gen.doc))
    /\ (~BracketFree(Strip(llm_output)) /\ RawDecode(JsonStr(Strip(llm_output))).ok) =>
          final_parts = PartsOf(RecordsOf(RawDecode(JsonStr(Strip(llm_output))).val))

C7_Witness ==
  /\ called
  /\ gen.prose = <<LETTER, BLANK>>
  /\ gen.doc = PyDict(<<Pair("messages", PyList(<<PyDict(<<Pair("a", PyInt(1))>>)>>))>>)
  /\ final_parts = <<create_a2ui_part(PyDict(<<Pair("a", PyInt(1))>>))>>

\* C10: whenever the prefix-tolerant parse fails, the strict parse of the
\* text up to the last closing bracket fails too, so the result is the one
\* of a recovery without the fallback; and a recovered value is always an
\* array or an object.
C10_FallbackNeverRescues ==
  LET stripped == Strip(llm_output)
      raw == RawDecode(JsonStr(stripped))
  IN ~BracketFree(stripped) =>
       /\ ~raw.ok => FallbackParse(JsonStr(stripped)).data = PyNone
       /\ ExtractData(JsonStr(stripped)).data.t \in {"none", "list", "dict"}
       /\ (called /\ raw.err \in {"none", "JSONDecodeError"}) =>
            /\ process_raised = "none"
            /\ final_parts =
                 PartsFromData(stripped, IF raw.ok THEN raw.val ELSE PyNone)
       /\ (called /\ raw.err \notin {"none", "JSONDecodeError"}) =>
            process_raised = raw.err

C10_Witness ==
  /\ called
  /\ llm_output = <<LBRACK, DIGIT, COMMA, RBRACK>>
  /\ EndMatch(JsonStr(Strip(llm_output))) = 4
  /\ final_parts = <<TextPart(llm_output)>>

\* The value a context entry unwraps to, and whether it has one.
Tagged(item) ==
  /\ DictHas(item, "value")
  /\ \E tag \in {"literalString", "literalNumber", "literalBoolean", "path"} :
       DictHas(DictGet(item, "value"), tag)
Unwrapped(item) ==
  LET val == DictGet(item, "value")
  IN IF DictHas(val, "literalString") THEN DictGet(val, "literalString")
     ELSE IF DictHas(val, "literalNumber") THEN DictGet(val, "literalNumber")
     ELSE IF DictHas(val, "literalBoolean") THEN DictGet(val, "literalBoolean")
     ELSE PyStr("{path: " \o DictGet(val, "path").s \o "}")

\* The mapping of a context: each key of a tagged entry, in the order of
\* its first tagged entry, with the value of its last tagged entry.
RECURSIVE MappingFrom(_, _)
MappingFrom(items, i) ==
  IF i > Len(items) THEN <<>>
  ELSE IF /\ Tagged(items[i])
          /\ \A j \in 1..(i - 1) :
               ~(Tagged(items[j]) /\ DictGet(items[j], "key") = DictGet(items[i], "key"))
       THEN LET last == CHOOSE j \in i..Len(items) :
                          /\ Tagged(items[j])
                          /\ DictGet(items[j], "key") = DictGet(items[i], "key")
                          /\ \A k \in (j + 1)..Len(items) :
                               ~(Tagged(items[k])
                                 /\ DictGet(items[k], "key") = DictGet(items[i], "key"))
            IN <<Pair(DictGet(items[i], "key").s, Unwrapped(items[last]))>>
               \o MappingFrom(items, i + 1)
       ELSE MappingFrom(items, i + 1)

DirectiveOf(part) ==
  LET payload == DictGet(part.data, "userAction")
      name == IF DictHas(payload, "name") THEN DictGet(payload, "name").s ELSE "None"
      items == IF DictHas(payload, "context") THEN DictGet(payload, "context").items
               ELSE <<>>
  IN "User initiated action: '" \o name \o "'. Action context data: "
     \o Dumps(MappingFrom(items, 1))
     \o ". Please use the appropriate tool to handle this."

\* C8: the prompt is the user's text (without its leading whitespace when
\* a directive follows it) followed by the directive of the first
\* data part that has a userAction key: it names that action and maps each
\* key to the value unwrapped from its entry; whatever follows that part,
\* another userAction part included, leaves the prompt as it is.
C8_PromptFromFirstAction ==
  pc = "streaming" =>
    LET parts == context.parts
        matching == {i \in 1..Len(parts) : IsUserActionPart(parts[i])}
    IN IF matching = {}
       THEN msg_text = context.user_input
       ELSE LET first == CHOOSE i \in matching : \A j \in matching : i <= j
                text == LStrip(context.user_input)
            IN /\ msg_text = (IF text = <<>> THEN <<>> ELSE text \o <<NEWLINE>>)
                             \o <<DirectiveOf(parts[first])>>
               /\ \A tail \in PartTails :
                    MsgText(context.user_input,
                            UserActionData(SubSeq(parts, 1, first) \o tail)) = msg_text

C8_Witness ==
  /\ pc = "streaming"
  /\ context.user_input = <<BLANK, LETTER>>
  /\ context.parts = <<MessageTextPart, SelectRed, OpenSize>>
  /\ msg_text = <<LETTER, NEWLINE,
       "User initiated action: 'select'. Action context data: {\"color\": \"red\"}. Please use the appropriate tool to handle this.">>

====
